---- MODULE Spec2Model ----
(***************************************************************************)
(* Model of the interactive difference viewer, src/difference.py           *)
(* (class DifferencePlot): construction (shape check, zero padding,        *)
(* x_range interpolation, first render, key handler registration), the     *)
(* render plot_window and the key handler on_key_release.                  *)
(*                                                                         *)
(* Sequences are 1-based here and 0-based in the source: a 0-based index i *)
(* of the source is the index i + 1 of the model.  None is modelled as the *)
(* empty sequence <<>> and a supplied value v as <<v>> where the source    *)
(* distinguishes the two with "is not None".                               *)
(***************************************************************************)
EXTENDS Integers, Sequences, FiniteSets, TLC

\* ---- bounds of the explored inputs ----
MaxDatasets == 2
MaxChannels == 2
MaxSamples == 2
MaxWidth == 2
MaxHeight == 2
MaxKeys == 2

VARIABLES
  args,       \* the arguments of the constructor call
  self,       \* the attributes of the DifferencePlot object set so far
  axes,       \* the subplots the figure currently holds (the displayed frame)
  callbacks,  \* the handlers connected to the canvas' key_release_event
  pc,         \* "call": before __init__; "show": in plt.show(); "raised"
  exc,        \* the exception __init__ ended with, "" when none
  pressed,    \* how many releases of each key have been handled
  draws,      \* the plt.draw() calls of the last operation
  trail       \* the frames shown so far: after __init__, then per key release

vars == <<args, self, axes, callbacks, pc, exc, pressed, draws, trail>>

\* ---- Python arithmetic ----

\* a % b of Python for b # 0: the result has the sign of b
PyMod(a, b) == IF b > 0 THEN a % b ELSE 0 - ((0 - a) % (0 - b))

\* ---- numpy ----

\* dataset.shape of a channel x sample matrix
Shape(dataset) == <<Len(dataset), Len(dataset[1])>>

\* np.zeros((rows, cols))
Zeros(rows, cols) == [c \in 1..rows |-> [t \in 1..cols |-> 0]]

\* np.concatenate([a, b], axis=1)
ConcatCols(a, b) == [c \in 1..Len(a) |-> a[c] \o b[c]]

\* np.interp with right=0: zero instead of fp[last] right of xp
InterpAtZeroRight(x, xp, fp) ==
  IF x <= xp[1] THEN fp[1]
  ELSE IF x > xp[Len(xp)] THEN 0
  ELSE fp[CHOOSE j \in 1..Len(xp) : xp[j] = x]

\* np.interp(x, xp, fp) at one sample point x, for increasing integer xp:
\* fp[1] left of xp, fp[last] right of it, fp[j] at the point xp[j]
InterpAt(x, xp, fp) ==
  IF x <= xp[1] THEN fp[1]
  ELSE IF x >= xp[Len(xp)] THEN fp[Len(fp)]
  ELSE fp[CHOOSE j \in 1..Len(xp) : xp[j] = x]

\* range(n) as a sequence
Range(n) == [i \in 1..(IF n > 0 THEN n ELSE 0) |-> i - 1]

Interp(xs, xp, fp) == [i \in 1..Len(xs) |-> InterpAt(xs[i], xp, fp)]

\* seq[lo:hi] of Python for 0 <= lo: both ends are clamped to len(seq)
Slice(seq, lo, hi) ==
  LET end == IF hi > Len(seq) THEN Len(seq) ELSE hi
  IN  [i \in 1..(end - lo) |-> seq[lo + i]]

\* ---- the constructor's inputs ----

Keys == {"left", "right", "up", "down", "a"}

\* the matrix of dataset number d with the given shape; values in 0..2
Matrix(d, C, T) == [c \in 1..C |-> [t \in 1..T |-> (d + c + 2 * t) % 3]]

\* a collection of n datasets, dataset d of shape shapes[d]
Collection(shapes) ==
  [d \in 1..Len(shapes) |-> Matrix(d, shapes[d][1], shapes[d][2])]

ShapeSet == (1..MaxChannels) \X (1..MaxSamples)

\* the shapes of the collections explored: none, or up to MaxDatasets
\* matrices of which all but the last share one shape and the last has any
ShapeSeqs ==
  {<<>>} \cup
  UNION {{[d \in 1..n |-> IF d < n THEN base ELSE last] :
            base \in ShapeSet, last \in ShapeSet} : n \in 1..MaxDatasets}

\* strictly increasing coordinate sequences of length T
XRangeA(T) == [i \in 1..T |-> 10 + 5 * i]
XRangeB(T) == [i \in 1..T |-> i * i - 4]

ChNames(C) == [c \in 1..C |-> <<"ch", c>>]

\* <<ch_names, x_range>> as passed: each None (<<>>) or, as main() passes
\* them (lines 113-122), one name per row and <<coordinates>> with one
\* coordinate per sample of the first matrix
Labels(shapes) ==
  {<<<<>>, <<>>>>} \cup
  (IF Len(shapes) > 0
   THEN { <<ChNames(shapes[1][1]), <<>>>>,
          <<ChNames(shapes[1][1]), <<XRangeA(shapes[1][2])>>>>,
          <<<<>>, <<XRangeB(shapes[1][2])>>>> }
   ELSE {})

\* <<window_width, window_height>> as passed: positive, or one of the two
\* zero or negative
Dims ==
  ((1..MaxWidth) \X (1..MaxHeight))
    \cup {<<w, 1>> : w \in {-1, 0}} \cup {<<1, h>> : h \in {-1, 0}}

\* <<x, y>> as passed
Offsets == {<<0, 0>>, <<1, -1>>}

\* <<<<x, y>>, <<ch_names, x_range>>>> as passed: the default offsets with any
\* labels, other offsets without labels
Calls(shapes) ==
  {c \in Offsets \X Labels(shapes) :
     c[1] = <<0, 0>> \/ c[2] = <<<<>>, <<>>>>}

\* ---- plot_window ----

Min(S) == CHOOSE m \in S : \A n \in S : m <= n

\* seq[i] of Python raises IndexError: i is outside -len(seq) .. len(seq)-1
IndexFails(seq, i) == i >= Len(seq) \/ i < 0 - Len(seq)

\* seq[i] of Python: a negative i counts from the end
PyIndex(seq, i) == IF i >= 0 THEN seq[i + 1] ELSE seq[Len(seq) + i + 1]

\* line 49 without the wrap
RealChannelUnwrapped(s, channel) == s.y + channel

\* line 49
RealChannel(s, channel) == PyMod(s.y + channel, Shape(s.datasets[1])[1])

\* lines 51, 59, 60 stepping by one sample instead of one window
LeftBySample(s) == PyMod(s.x, Shape(s.datasets[1])[2])

\* lines 51, 59, 60
Left(s) == PyMod(s.x * s.window_width, Shape(s.datasets[1])[2])

\* lines 49-69, one iteration of the loop: the subplot it leaves in the
\* figure and the exception it ends with ("" when none).  What a raising
\* iteration did not reach keeps its default: no title, limits (0, 1), no
\* further trace.
Iteration(s, channel) ==
  LET real_channel == RealChannel(s, channel)
      width == s.window_width
      left == Left(s)
      \* line 56 raises IndexError
      titleFails == /\ s.ch_names # <<>>
                    /\ IndexFails(s.ch_names, real_channel)
      \* line 61 raises IndexError
      xlimFails == /\ s.x_range # <<>>
                   /\ \/ IndexFails(s.x_range[1], left)
                      \/ IndexFails(s.x_range[1], left + width - 1)
      \* lines 62 and 65
      x_range == IF s.x_range # <<>>
                 THEN Slice(s.x_range[1], left, left + width)
                 ELSE [i \in 1..width |-> left + i - 1]
      \* line 68 raises IndexError
      rowFails == [d \in 1..Len(s.datasets) |->
                     IndexFails(s.datasets[d], real_channel)]
      \* line 69: data[left:left+width], <<>> where line 68 raised
      data == [d \in 1..Len(s.datasets) |->
                 IF rowFails[d] THEN <<>>
                 ELSE Slice(PyIndex(s.datasets[d], real_channel),
                            left, left + width)]
      \* line 69 raises ValueError: x and y differ in length
      bad == {d \in 1..Len(s.datasets) :
                rowFails[d] \/ Len(x_range) # Len(data[d])}
      traces == IF titleFails \/ xlimFails THEN 0
                ELSE IF bad = {} THEN Len(s.datasets)
                ELSE Min(bad) - 1
  IN  [ row |-> channel + 1,
        real_channel |-> real_channel,
        left |-> left,
        title |-> IF s.ch_names # <<>> /\ ~titleFails
                  THEN <<PyIndex(s.ch_names, real_channel)>> ELSE <<>>,
        xlim |-> IF titleFails \/ xlimFails THEN <<0, 1>>
                 ELSE IF s.x_range # <<>>
                 THEN <<PyIndex(s.x_range[1], left),
                        PyIndex(s.x_range[1], left + width - 1)>>
                 ELSE <<left, left + width>>,
        lines |-> [d \in 1..traces |-> [xdata |-> x_range, ydata |-> data[d]]],
        exc |-> IF titleFails \/ xlimFails THEN "IndexError"
                ELSE IF bad = {} THEN ""
                ELSE IF rowFails[Min(bad)] THEN "IndexError"
                ELSE "ValueError" ]

\* plot_window storing the wrapped window index back into self.x
PlotWindowNormalising(s) ==
  LET rows == IF s.window_height > 0 THEN s.window_height ELSE 0
      done == [i \in 1..rows |-> Iteration(s, i - 1)]
      bad == {i \in 1..rows : done[i].exc # ""}
      n == IF bad = {} THEN rows ELSE Min(bad)
  IN  IF rows > 0 /\ s.datasets = <<>>
      THEN [ self |-> s, axes |-> <<>>, exc |-> "IndexError", draws |-> 0 ]
      ELSE [ self |-> [s EXCEPT !.x = Left(s) \div s.window_width],
             axes |-> SubSeq(done, 1, n),
             exc |-> IF bad = {} THEN "" ELSE done[Min(bad)].exc,
             draws |-> IF bad = {} THEN 1 ELSE 0 ]

\* plot_window: the figure is cleared and one subplot is added per row until
\* a row raises; plt.draw() is reached when no row raised.  With no dataset
\* at all line 49 of the first row raises IndexError before its subplot is
\* added.  No line of plot_window assigns an attribute: the object is
\* returned as it came.
PlotWindow(s) ==
  LET rows == IF s.window_height > 0 THEN s.window_height ELSE 0
      done == [i \in 1..rows |-> Iteration(s, i - 1)]
      bad == {i \in 1..rows : done[i].exc # ""}
      n == IF bad = {} THEN rows ELSE Min(bad)
  IN  IF rows > 0 /\ s.datasets = <<>>
      THEN [ self |-> s, axes |-> <<>>, exc |-> "IndexError", draws |-> 0 ]
      ELSE [ self |-> s,
             axes |-> SubSeq(done, 1, n),
             exc |-> IF bad = {} THEN "" ELSE done[Min(bad)].exc,
             draws |-> IF bad = {} THEN 1 ELSE 0 ]

\* ---- __init__ ----

\* lines 16-17 comparing the channel counts only
RowCountsIdentical(datasets) ==
  Cardinality({Shape(datasets[d])[1] : d \in 1..Len(datasets)}) = 1

\* lines 16-17 rejecting only two different shapes
ShapesAtMostOne(datasets) ==
  Cardinality({Shape(datasets[d]) : d \in 1..Len(datasets)}) <= 1

\* lines 16-17: the shapes of the datasets are all the same one
ShapesIdentical(datasets) ==
  Cardinality({Shape(datasets[d]) : d \in 1..Len(datasets)}) = 1

\* line 28
Residue(dataset, window_width) == PyMod(Shape(dataset)[2], window_width)

\* line 29 appending nothing
PadColumnsNone(dataset, window_width) == 0

\* line 29 never asking for a negative number of columns
PadColumnsClipped(dataset, window_width) ==
  IF window_width - Residue(dataset, window_width) < 0 THEN 0
  ELSE window_width - Residue(dataset, window_width)

\* line 29: the number of zero columns appended
PadColumns(dataset, window_width) ==
  window_width - Residue(dataset, window_width)

\* lines 29-30
Pad(dataset, window_width) ==
  ConcatCols(dataset,
             Zeros(Shape(dataset)[1], PadColumns(dataset, window_width)))

\* the object after lines 19-23
SelfOffsets(a) ==
  [ window_width |-> a.window_width, window_height |-> a.window_height,
    ch_names |-> a.ch_names, x |-> a.x, y |-> a.y ]

\* the object after line 31
SelfPadded(a) ==
  [ window_width |-> a.window_width, window_height |-> a.window_height,
    ch_names |-> a.ch_names, x |-> a.x, y |-> a.y,
    datasets |-> [d \in 1..Len(a.datasets) |->
                    Pad(a.datasets[d], a.window_width)] ]

\* lines 34-37
InterpXRange(a, datasets) ==
  IF a.x_range # <<>>
  THEN <<Interp(Range(Shape(datasets[1])[2]), Range(Len(a.x_range[1])),
                a.x_range[1])>>
  ELSE <<>>

\* the object after line 40
SelfFigure(a) ==
  LET p == SelfPadded(a)
  IN  [ window_width |-> p.window_width, window_height |-> p.window_height,
        ch_names |-> p.ch_names, x |-> p.x, y |-> p.y,
        datasets |-> p.datasets,
        x_range |-> InterpXRange(a, p.datasets),
        figure |-> "figure" ]

\* line 42: the object f with the connection id set
Connect(f) ==
  [ window_width |-> f.window_width, window_height |-> f.window_height,
    ch_names |-> f.ch_names, x |-> f.x, y |-> f.y,
    datasets |-> f.datasets, x_range |-> f.x_range,
    figure |-> f.figure, key_release_cid |-> "on_key_release" ]

\* the object after line 42
SelfConnected(a) == Connect(SelfFigure(a))

\* what the figure shows, as the trail keeps it: the key released (""
\* for the render of __init__), and per subplot its window start and channel
Shown(key, frame) ==
  [ key |-> key,
    lefts |-> [i \in DOMAIN frame |-> frame[i].left],
    channels |-> [i \in DOMAIN frame |-> frame[i].real_channel] ]

\* __init__ ends by raising e with the attributes s set
Raise(e, s) ==
  /\ pc' = "raised"
  /\ exc' = e
  /\ self' = s
  /\ UNCHANGED <<args, axes, callbacks, pressed, draws, trail>>

Construct ==
  /\ pc = "call"
  /\ IF ~ShapesIdentical(args.datasets)
     THEN Raise("Exception: Dataset shapes must be identical", self)
     ELSE IF args.window_width = 0 /\ args.datasets # <<>>
     THEN Raise("ZeroDivisionError", SelfOffsets(args))
     ELSE IF \E d \in 1..Len(args.datasets) :
               PadColumns(args.datasets[d], args.window_width) < 0
     THEN Raise("ValueError", SelfOffsets(args))
     ELSE IF args.x_range # <<>> /\ Len(args.x_range[1]) = 0
     THEN Raise("ValueError", SelfPadded(args))
     ELSE LET r == PlotWindow(SelfFigure(args))
          IN  /\ axes' = r.axes
              /\ draws' = r.draws
              /\ exc' = r.exc
              /\ IF r.exc # ""
                 THEN /\ pc' = "raised"
                      /\ self' = r.self
                      /\ UNCHANGED callbacks
                 ELSE /\ pc' = "show"
                      /\ self' = Connect(r.self)
                      /\ callbacks' = callbacks \cup {"on_key_release"}
              /\ trail' = Append(trail, Shown("", r.axes))
              /\ UNCHANGED <<args, pressed>>

\* ---- on_key_release ----

\* lines 75-82 with x clamped at zero
KeyUpdateClamped(s, key) ==
  IF key = "left" THEN [s EXCEPT !.x = IF s.x > 0 THEN s.x - 1 ELSE 0]
  ELSE IF key = "right" THEN [s EXCEPT !.x = s.x + 1]
  ELSE IF key = "up" THEN [s EXCEPT !.y = s.y - 1]
  ELSE IF key = "down" THEN [s EXCEPT !.y = s.y + 1]
  ELSE s

\* lines 75-82 with the last branch an else
KeyUpdateElse(s, key) ==
  IF key = "left" THEN [s EXCEPT !.x = s.x - 1]
  ELSE IF key = "right" THEN [s EXCEPT !.x = s.x + 1]
  ELSE IF key = "up" THEN [s EXCEPT !.y = s.y - 1]
  ELSE [s EXCEPT !.y = s.y + 1]

\* lines 75-82 with left and right exchanged
KeyUpdateMirrored(s, key) ==
  IF key = "left" THEN [s EXCEPT !.x = s.x + 1]
  ELSE IF key = "right" THEN [s EXCEPT !.x = s.x - 1]
  ELSE IF key = "up" THEN [s EXCEPT !.y = s.y - 1]
  ELSE IF key = "down" THEN [s EXCEPT !.y = s.y + 1]
  ELSE s

\* lines 75-82 with up and down exchanged
KeyUpdateFlipped(s, key) ==
  IF key = "left" THEN [s EXCEPT !.x = s.x - 1]
  ELSE IF key = "right" THEN [s EXCEPT !.x = s.x + 1]
  ELSE IF key = "up" THEN [s EXCEPT !.y = s.y + 1]
  ELSE IF key = "down" THEN [s EXCEPT !.y = s.y - 1]
  ELSE s

\* lines 75-82
KeyUpdate(s, key) ==
  IF key = "left" THEN [s EXCEPT !.x = s.x - 1]
  ELSE IF key = "right" THEN [s EXCEPT !.x = s.x + 1]
  ELSE IF key = "up" THEN [s EXCEPT !.y = s.y - 1]
  ELSE IF key = "down" THEN [s EXCEPT !.y = s.y + 1]
  ELSE s

\* on_key_release rendering before it moves the offset
OnKeyReleaseStale(key) ==
  /\ pc = "show"
  /\ "on_key_release" \in callbacks
  /\ LET r == PlotWindow(self)
     IN  /\ self' = KeyUpdate(r.self, key)
         /\ axes' = r.axes
         /\ draws' = r.draws
         /\ exc' = r.exc
         /\ trail' = Append(trail, Shown(key, r.axes))
  /\ pressed' = [pressed EXCEPT ![key] = @ + 1]
  /\ UNCHANGED <<args, callbacks, pc>>

OnKeyRelease(key) ==
  /\ pc = "show"
  /\ "on_key_release" \in callbacks
  /\ LET s == KeyUpdate(self, key)
         r == PlotWindow(s)
     IN  /\ self' = r.self
         /\ axes' = r.axes
         /\ draws' = r.draws
         /\ exc' = r.exc
         /\ trail' = Append(trail, Shown(key, r.axes))
  /\ pressed' = [pressed EXCEPT ![key] = @ + 1]
  /\ UNCHANGED <<args, callbacks, pc>>

\* ---- the specification ----

Handled == pressed["left"] + pressed["right"] + pressed["up"]
             + pressed["down"] + pressed["a"]

Init ==
  /\ \E shapes \in ShapeSeqs, dims \in Dims :
       \E call \in Calls(shapes) :
         args = [ datasets |-> Collection(shapes), ch_names |-> call[2][1],
                  x |-> call[1][1], y |-> call[1][2], x_range |-> call[2][2],
                  window_width |-> dims[1], window_height |-> dims[2] ]
  /\ self = <<>>
  /\ axes = <<>>
  /\ callbacks = {}
  /\ pc = "call"
  /\ exc = ""
  /\ pressed = [k \in Keys |-> 0]
  /\ draws = 0
  /\ trail = <<>>

KeyRelease == \E key \in Keys : Handled < MaxKeys /\ OnKeyRelease(key)

Next == Construct \/ KeyRelease

Spec == Init /\ [][Next]_vars

\* ---- vocabulary of the properties ----

\* construction has completed: the viewer is in its event loop
Constructed == pc = "show"

\* C and T of the supplied datasets, and the padded sample count of one
Channels == Shape(args.datasets[1])[1]
Samples == Shape(args.datasets[1])[2]
PaddedSamples(d) == Shape(self.datasets[d])[2]

\* n is a multiple of w, for n >= 0 and w > 0
IsMultiple(n, w) == \E k \in 0..n : n = k * w

\* n is the smallest multiple of w that is >= t
SmallestMultipleFrom(n, w, t) ==
  /\ IsMultiple(n, w)
  /\ n >= t
  /\ \A m \in t..(n - 1) : ~IsMultiple(m, w)

\* C1: for identically shaped datasets and a positive window_width,
\* construction succeeds and the padded sample count of every dataset is the
\* smallest multiple of window_width that is >= the supplied sample count.
C1_PaddedIsSmallestMultiple ==
  (pc # "call" /\ ShapesIdentical(args.datasets) /\ args.window_width > 0)
    => /\ Constructed
       /\ \A d \in 1..Len(self.datasets) :
            SmallestMultipleFrom(PaddedSamples(d), args.window_width, Samples)

\* C2: when window_width divides the supplied sample count, construction
\* appends no column: each padded matrix equals the supplied matrix.
C2_NoPaddingWhenDivisible ==
  (Constructed /\ Samples % args.window_width = 0)
    => self.datasets = args.datasets

\* at least two of the supplied datasets differ in shape
ShapesDiffer ==
  \E d, e \in 1..Len(args.datasets) :
    Shape(args.datasets[d]) # Shape(args.datasets[e])

\* C3: when two of the supplied datasets differ in shape, construction ends
\* with the shape-mismatch error and nothing of the viewer is established: no
\* attribute (offsets, padded datasets) is set, nothing is rendered, no key
\* handler is connected, and no render can happen afterwards.
C3_ShapeMismatchAbortsFirst ==
  (pc # "call" /\ ShapesDiffer)
    => /\ pc = "raised"
       /\ exc = "Exception: Dataset shapes must be identical"
       /\ DOMAIN self = {}
       /\ axes = <<>>
       /\ draws = 0
       /\ callbacks = {}
       /\ ~ENABLED Next

C3_Witness == pc = "raised" /\ ShapesDiffer /\ Len(args.datasets) = 2

\* the window start the render resolves in the current state
Start == PyMod(self.x * self.window_width, PaddedSamples(1))

\* C4: after construction and any left/right key events, the window start
\* (x * window_width) mod T_padded lies in [0, T_padded - window_width]; the
\* render raised nothing, every trace it drew is the slice
\* [start, start + window_width) of full length, and the coordinate-map index
\* start + window_width - 1 is inside the padded range.
C4_WindowStartInRange ==
  Constructed
    => /\ Start \in 0..(PaddedSamples(1) - self.window_width)
       /\ exc = ""
       /\ self.x_range # <<>>
            => Start + self.window_width - 1 < Len(self.x_range[1])
       /\ \A i \in DOMAIN axes :
            /\ axes[i].left = Start
            /\ Len(axes[i].lines) = Len(self.datasets)
            /\ \A d \in DOMAIN axes[i].lines :
                 /\ Len(axes[i].lines[d].ydata) = self.window_width
                 /\ Len(axes[i].lines[d].xdata) = self.window_width

\* a negative x wrapped to the last window, and an x beyond the last window
\* wrapped to an earlier one
C4_Witness ==
  /\ Constructed
  /\ axes # <<>>
  /\ self.x < 0
  /\ pressed["left"] > 0
  /\ Start = PaddedSamples(1) - self.window_width
  /\ Start > 0

\* C5: after construction and any up/down key events, every channel index the
\* render resolves, (y + r) mod C for the rows r = 0..window_height-1, lies in
\* [0, C - 1].
C5_ChannelIndexInRange ==
  Constructed
    => /\ Len(axes) = (IF self.window_height > 0 THEN self.window_height ELSE 0)
       /\ \A i \in DOMAIN axes :
            /\ axes[i].real_channel \in 0..(Channels - 1)
            /\ axes[i].real_channel = PyMod(self.y + i - 1, Channels)

C5_Witness ==
  /\ Constructed
  /\ Len(axes) = 2
  /\ self.y < -1
  /\ pressed["up"] > 0
  /\ Channels = 2
  /\ axes[1].real_channel = 0
  /\ axes[2].real_channel = 1

\* some key release has been handled in this step
Released(key) == pressed'[key] = pressed[key] + 1

\* C6: a left key release sets x to x - 1, right to x + 1, up sets y to y - 1,
\* down to y + 1; left and right leave y alone, up and down leave x alone;
\* nothing is clamped.
C6_DirectionalKeysStepByOne ==
  [][ /\ Released("left") => self'.x = self.x - 1 /\ self'.y = self.y
      /\ Released("right") => self'.x = self.x + 1 /\ self'.y = self.y
      /\ Released("up") => self'.y = self.y - 1 /\ self'.x = self.x
      /\ Released("down") => self'.y = self.y + 1 /\ self'.x = self.x ]_vars

C6_Witness ==
  /\ Constructed
  /\ pressed["left"] > 0
  /\ pressed["up"] > 0
  /\ self.x = args.x - 1
  /\ self.y = args.y - 1
  /\ self.x < 0
  /\ self.y < 0

\* C7: the release of a key that is none of left, right, up, down changes
\* neither x nor y nor any other attribute of the viewer, nor the handlers
\* connected, nor what the figure shows.
C7_OtherKeyIsNoOp ==
  [][ Released("a") =>
        /\ self' = self
        /\ callbacks' = callbacks
        /\ axes' = axes
        /\ pc' = pc ]_vars

C7_Witness ==
  /\ Constructed
  /\ pressed["a"] > 0
  /\ pressed["right"] > 0
  /\ self.x = args.x + 1

\* C8: after r right and l left key releases x = x0 + r - l, and every
\* subplot of the frame starts at ((x0 + r - l) * window_width) mod T_padded.
C8_XCountsRightMinusLeft ==
  Constructed
    => /\ self.x = args.x + pressed["right"] - pressed["left"]
       /\ \A i \in DOMAIN axes :
            axes[i].left =
              PyMod((args.x + pressed["right"] - pressed["left"])
                      * args.window_width, PaddedSamples(1))

\* from x0 = 1, two right releases on two windows: x = 3, the start wrapped
\* round to the second window
C8_Witness ==
  /\ Constructed
  /\ args.x = 1
  /\ pressed["right"] = 2
  /\ self.x = 3
  /\ axes # <<>>
  /\ PaddedSamples(1) = 2 * args.window_width
  /\ axes[1].left = args.window_width

\* C9: after d down and u up key releases y = y0 + d - u, and the frame
\* shows, in row order r = 0..window_height-1, the channels
\* (y0 + d - u + r) mod C.
C9_YCountsDownMinusUp ==
  Constructed
    => /\ self.y = args.y + pressed["down"] - pressed["up"]
       /\ [i \in DOMAIN axes |-> axes[i].real_channel] =
            [i \in 1..(IF args.window_height > 0
                       THEN args.window_height ELSE 0) |->
               PyMod(args.y + pressed["down"] - pressed["up"] + i - 1,
                     Channels)]

\* from y0 = 0, two down releases on two channels: y = 2 wraps round to the
\* first channel, the two rows show the channels 0, 1
C9_Witness ==
  /\ Constructed
  /\ args.y = 0
  /\ pressed["down"] = 2
  /\ self.y = 2
  /\ Channels = 2
  /\ [i \in DOMAIN axes |-> axes[i].real_channel] = <<0, 1>>

StrictlyIncreasing(seq) ==
  \A i \in 1..(Len(seq) - 1) : seq[i] < seq[i + 1]

NonDecreasing(seq) ==
  \A i \in 1..(Len(seq) - 1) : seq[i] <= seq[i + 1]

\* C10: when x_range is supplied with one strictly increasing coordinate per
\* sample, the coordinate sequence built at construction has length
\* T_padded, is non-decreasing, starts at x_range[0], ends at x_range[T-1],
\* equals x_range[i] at the indices i < T and x_range[T-1] at the padding
\* indices i >= T.
C10_CoordinateMapHeldOverPadding ==
  (/\ Constructed
   /\ args.x_range # <<>>
   /\ Len(args.x_range[1]) = Samples
   /\ StrictlyIncreasing(args.x_range[1]))
    => LET map == self.x_range[1]
       IN  /\ Len(map) = PaddedSamples(1)
           /\ NonDecreasing(map)
           /\ map[1] = args.x_range[1][1]
           /\ map[PaddedSamples(1)] = args.x_range[1][Samples]
           /\ \A i \in 1..Len(map) :
                map[i] = args.x_range[1][IF i <= Samples THEN i ELSE Samples]

C10_Witness ==
  /\ Constructed
  /\ args.x_range # <<>>
  /\ Samples >= 2
  /\ PaddedSamples(1) >= Samples + 2
  /\ self.x_range[1][PaddedSamples(1)] = args.x_range[1][Samples]

\* the attributes construction computes once
Fixed(s) ==
  <<s.datasets, s.x_range, s.window_width, s.window_height, s.ch_names>>

\* C11: after construction x and y change only in the handling of a left,
\* right, up or down key release, and then by the handler's own step: the
\* render that ends every handler invocation (and the one of __init__) leaves
\* x and y as it found them; and no key release, whatever the key, changes
\* the padded datasets, the coordinate map, window_width, window_height or
\* the channel names.
C11_OnlyHandlerMovesOffsets ==
  [][ /\ (pc = "call" /\ pc' = "show")
        => /\ self'.x = args.x
           /\ self'.y = args.y
      /\ pc = "show"
        => /\ Fixed(self') = Fixed(self)
           /\ Released("left") => self'.x = self.x - 1 /\ self'.y = self.y
           /\ Released("right") => self'.x = self.x + 1 /\ self'.y = self.y
           /\ Released("up") => self'.x = self.x /\ self'.y = self.y - 1
           /\ Released("down") => self'.x = self.x /\ self'.y = self.y + 1
           /\ (self'.x # self.x \/ self'.y # self.y)
                => \E key \in {"left", "right", "up", "down"} : Released(key)
    ]_vars

\* a viewer with padding, a coordinate map and names after a right and
\* another key release, rendered three times
C11_Witness ==
  /\ Constructed
  /\ pressed["right"] = 1
  /\ pressed["a"] = 1
  /\ Len(trail) = 3
  /\ self.x = args.x + 1
  /\ self.x_range # <<>>
  /\ self.ch_names # <<>>
  /\ PaddedSamples(1) > Samples
  /\ axes # <<>>

\* the subplot of row i shows the window and the channel of the current
\* offsets, with one trace per dataset holding that dataset's samples
FrameCurrent ==
  /\ Len(axes) = (IF self.window_height > 0 THEN self.window_height ELSE 0)
  /\ \A i \in DOMAIN axes :
       /\ axes[i].row = i
       /\ axes[i].left = Start
       /\ axes[i].real_channel = PyMod(self.y + i - 1, Channels)
       /\ Len(axes[i].lines) = Len(self.datasets)
       /\ \A d \in DOMAIN axes[i].lines :
            axes[i].lines[d].ydata =
              [j \in 1..self.window_width |->
                 self.datasets[d][axes[i].real_channel + 1][Start + j]]

\* C12: the handler is connected only once construction has rendered; the
\* renders so far are the one of construction and one per key release
\* handled; and whenever the viewer waits for an event the last operation
\* drew once and the figure holds exactly window_height subplots (none when
\* it is not positive), each with one trace per dataset, for the current x
\* and y.
C12_FrameNeverStale ==
  /\ callbacks # {} => Constructed
  /\ Constructed
       => /\ callbacks = {"on_key_release"}
          /\ Len(trail) = 1 + Handled
          /\ trail[1].key = ""
          /\ draws = 1
          /\ exc = ""
          /\ FrameCurrent

\* two traces in each of two rows after a right and a down key release
C12_Witness ==
  /\ Constructed
  /\ pressed["right"] = 1
  /\ pressed["down"] = 1
  /\ Len(axes) = 2
  /\ Len(self.datasets) = 2
  /\ Start > 0
  /\ axes[1].real_channel # PyMod(args.y, Channels)

\* everything construction establishes is there: the attributes, a drawn
\* frame and the connected handler
Established ==
  /\ Constructed
  /\ exc = ""
  /\ DOMAIN self = { "window_width", "window_height", "ch_names", "x", "y",
                     "datasets", "x_range", "figure", "key_release_cid" }
  /\ draws = 1
  /\ callbacks = {"on_key_release"}

\* C13 as claimed: for identically shaped datasets, construction with a
\* window_width or window_height that is zero or negative ends in no error
\* and leaves an established viewer.
C13_NoErrorOutOfRange ==
  (/\ pc # "call"
   /\ ShapesIdentical(args.datasets)
   /\ (args.window_width <= 0 \/ args.window_height <= 0))
    => Established

\* C13 as amended: for identically shaped datasets, construction with a
\* positive window_width completes whatever window_height is, and with a
\* zero or negative window_height it leaves an established viewer whose frame
\* has no subplot; a zero window_width ends in ZeroDivisionError (line 28)
\* and a negative one in ValueError (line 29), both after the offsets are set
\* and before any padding, render or handler.
C13_OnlyHeightIsTolerated ==
  (pc # "call" /\ ShapesIdentical(args.datasets))
    => /\ args.window_width > 0 => Established
       /\ (args.window_width > 0 /\ args.window_height <= 0) => axes = <<>>
       /\ args.window_width <= 0
            => /\ pc = "raised"
               /\ exc = (IF args.window_width = 0
                         THEN "ZeroDivisionError" ELSE "ValueError")
               /\ DOMAIN self = { "window_width", "window_height",
                                  "ch_names", "x", "y" }
               /\ axes = <<>>
               /\ draws = 0
               /\ callbacks = {}

\* a viewer with a negative window_height that has handled a key release
C13_Witness ==
  /\ Established
  /\ args.window_height < 0
  /\ pressed["down"] = 1
  /\ axes = <<>>

\* C14: construction with no dataset at all ends with the same error as
\* differing shapes, and as there nothing of the viewer is established: no
\* attribute, no frame, no draw, no handler, and nothing can follow.
C14_EmptyCollectionIsMismatch ==
  (pc # "call" /\ args.datasets = <<>>)
    => /\ pc = "raised"
       /\ exc = "Exception: Dataset shapes must be identical"
       /\ DOMAIN self = {}
       /\ axes = <<>>
       /\ trail = <<>>
       /\ draws = 0
       /\ callbacks = {}
       /\ ~ENABLED Next

C14_Witness ==
  /\ pc = "raised"
  /\ args.datasets = <<>>
  /\ args.window_width > 0
  /\ args.window_height > 0
  /\ exc = "Exception: Dataset shapes must be identical"

\* the number of windows of the padded datasets
Windows == PaddedSamples(1) \div self.window_width

\* the key releases after the frame i of the trail up to the frame j were
\* all of this key
AllReleases(i, j, key) == \A k \in (i + 1)..j : trail[k].key = key

\* C15: T_padded / window_width consecutive right (or left) key releases
\* bring back the window start shown before them, C consecutive down (or up)
\* key releases bring back the channels shown before them, and every window
\* start ever shown is a multiple of window_width.
C15_PanningIsPeriodic ==
  Constructed
    => /\ Windows * self.window_width = PaddedSamples(1)
       /\ \A i, j \in DOMAIN trail :
            /\ (/\ j - i = Windows
                /\ AllReleases(i, j, "right") \/ AllReleases(i, j, "left"))
                 => trail[j].lefts = trail[i].lefts
            /\ (/\ j - i = Channels
                /\ AllReleases(i, j, "down") \/ AllReleases(i, j, "up"))
                 => trail[j].channels = trail[i].channels
       /\ \A i \in DOMAIN trail :
            \A r \in DOMAIN trail[i].lefts :
              trail[i].lefts[r] % self.window_width = 0

\* two windows, two right key releases: the second window, then the first
\* again
C15_Witness ==
  /\ Constructed
  /\ Windows = 2
  /\ Len(trail) = 3
  /\ trail[2].key = "right"
  /\ trail[3].key = "right"
  /\ trail[1].lefts # <<>>
  /\ trail[2].lefts # trail[1].lefts
  /\ trail[3].lefts = trail[1].lefts

====
